---- MODULE Spec2Model ----
(***************************************************************************)
(* Timetable preprocessing of drino.                                       *)
(*                                                                         *)
(*   routing/src/raptor/preprocessing.rs  RaptorAlgorithm::preprocess      *)
(*   routing/src/tp/init.rs               TransferPatternsAlgorithm::      *)
(*                                        preprocess (parallel orchestrator)*)
(*                                                                         *)
(* The tables handed to preprocess are the inputs; they are fixed in Init  *)
(* and never change.  One run of preprocess is a sequence of steps of the  *)
(* main thread (pc), and, for the transfer patterns, of one task per chunk *)
(* of stops (task_pc) interleaved freely, as on a work-stealing pool.      *)
(***************************************************************************)
EXTENDS Integers, Sequences, FiniteSets, TLC

VARIABLES
    \* ---- inputs and build configuration
    entry,               \* "raptor": RaptorAlgorithm::preprocess alone; "tp": TransferPatternsAlgorithm::preprocess
    debug_assertions,    \* cfg!(debug_assertions): TRUE in a debug build
    stops_table,         \* column stop_id of PreprocessingInput.stops (Null = a null cell)
    line_progressions,   \* rows [line_id, stop_id, sequence_number]
    expanded_lines,      \* rows [line_id, stop_id, stop_sequence, trip_id, arrival_time, departure_time]
    query_errors,        \* the stops for which query_range_all returns Err
    chunk_size,          \* the value CHUNK_SIZE is built with
    progress_bars,       \* TRUE when a progress sink is passed (Some)
    \* ---- RaptorAlgorithm::preprocess
    pc,                  \* position of the main thread
    stops,               \* stops_vec
    stops_by_line,       \* LineId -> list of StopId
    lines_by_stops,      \* StopId -> set of <<LineId, SeqNum>>
    arrivals,            \* <<TripId, StopId>> -> instant
    departures,          \* <<TripId, StopId>> -> instant
    trips_by_line_and_stop, \* <<LineId, StopId>> -> list of <<instant, TripId>>
    \* ---- TransferPatternsAlgorithm::preprocess
    task_pc,             \* chunk task -> position in the for_each closure
    task_next,           \* chunk task -> number of stops of its chunk already queried
    task_results,        \* chunk task -> the results collected so far
    mutex_owner,         \* the task holding the aggregator's mutex, or NoTask
    strong_count,        \* strong count of the Arc around the aggregator (0 once unwrapped)
    transfer_patterns,   \* the aggregator: StopId -> set of patterns
    pb_len,              \* length the progress bar was created with
    pb_pos,              \* position of the progress bar
    queries,             \* history: Range -> number of query_range_all calls made with it
    lock_order           \* history: the chunk tasks in the order they took the mutex

inputs == <<entry, debug_assertions, stops_table, line_progressions,
            expanded_lines, query_errors, chunk_size, progress_bars>>
index == <<stops, stops_by_line, lines_by_stops, arrivals, departures,
           trips_by_line_and_stop>>
tasks == <<task_pc, task_next, task_results, mutex_owner, strong_count,
           transfer_patterns, pb_len, pb_pos, queries, lock_order>>
vars == <<inputs, pc, index, tasks>>

----------------------------------------------------------------------------
(* Bounds of the model and program constants. *)

MaxStopRows == 2      \* rows of the stops table (index family)
MaxProgRows == 2      \* rows of line_progressions (index family)
MaxLineRows == 3      \* rows of expanded_lines (timetable family)
MaxTaskStops == 3     \* stops given to the orchestrator (orchestrator family)
MaxListLen == 3       \* length of a trips_by_line_and_stop list given to the check alone

CHUNK_SIZE == 5
WeekMillis == 604800000

Null == -1
NoTask == 0
StopIds == 0..1
LineIds == 0..1
TripIds == 0..1
SeqNums == 0..1
Times == 0..1

EmptyMap == <<>>

SeqsUpTo(S, n) == UNION {[1..k -> S] : k \in 0..n}

Range(f) == {f[x] : x \in DOMAIN f}

Min(a, b) == IF a <= b THEN a ELSE b

----------------------------------------------------------------------------
(* RaptorAlgorithm::preprocess *)

\* .into_iter().filter_map(|x| x.map(StopId)).collect(): the non-null cells, in
\* row order; nothing removes a repeated stop_id.
StopsVec(table) == SelectSeq(table, LAMBDA x : x # Null)

\* stops_by_line.entry(line_id).or_insert(vec![]).push(stop_id)
PushStop(m, line, stop) ==
    IF line \in DOMAIN m THEN [m EXCEPT ![line] = Append(@, stop)]
    ELSE m @@ (line :> <<stop>>)

\* lines_by_stops.entry(stop_id).or_insert(HashSet::new()).insert((line_id, seq_num))
InsertLine(m, stop, line, seq) ==
    IF stop \in DOMAIN m THEN [m EXCEPT ![stop] = @ \cup {<<line, seq>>}]
    ELSE m @@ (stop :> {<<line, seq>>})

\* The loop over izip!(line_ids, stop_ids, sequence_numbers): the rows are taken
\* in the order the table has them.
RECURSIVE ScanStopsByLine(_, _, _)
ScanStopsByLine(rows, i, m) ==
    IF i > Len(rows) THEN m
    ELSE ScanStopsByLine(rows, i + 1, PushStop(m, rows[i].line_id, rows[i].stop_id))

RECURSIVE ScanLinesByStops(_, _, _)
ScanLinesByStops(rows, i, m) ==
    IF i > Len(rows) THEN m
    ELSE ScanLinesByStops(rows, i + 1,
            InsertLine(m, rows[i].stop_id, rows[i].line_id, rows[i].sequence_number))

\* debug_assert!(stops_vec.len() == lines_by_stops.len())
StopsAssertHolds(sv, lbs) == Len(sv) = Cardinality(DOMAIN lbs)

\* DateTime::from_timestamp_millis(ms).unwrap(): the instant ms milliseconds
\* after the epoch (None, and a panic, only beyond +-8.64e15 ms, outside the model).
FromTimestampMillis(ms) == ms

\* DataFrame::sort with maintain_order(false) yields the rows in some order p
\* that is sorted under the sort key; which one, among rows that compare equal,
\* is not specified.
Reorder(rows, p) == [i \in DOMAIN rows |-> rows[p[i]]]

\* sort(["line_id", "trip_id", "stop_sequence"]), ascending
LineTripSeqLeq(a, b) ==
    \/ a.line_id < b.line_id
    \/ /\ a.line_id = b.line_id
       /\ \/ a.trip_id < b.trip_id
          \/ /\ a.trip_id = b.trip_id
             /\ a.stop_sequence <= b.stop_sequence

SortByLineTripSeq(rows) ==
    {Reorder(rows, p) :
        p \in {q \in Permutations(DOMAIN rows) :
                  \A i \in 1..(Len(rows) - 1) : LineTripSeqLeq(rows[q[i]], rows[q[i + 1]])}}

\* arrivals.insert((trip_id, stop_id), t): a later row replaces an earlier one
PutTime(m, trip, stop, t) ==
    IF <<trip, stop>> \in DOMAIN m THEN [m EXCEPT ![<<trip, stop>>] = t]
    ELSE m @@ (<<trip, stop>> :> t)

RECURSIVE ScanArrivals(_, _, _)
ScanArrivals(rows, i, m) ==
    IF i > Len(rows) THEN m
    ELSE ScanArrivals(rows, i + 1,
            PutTime(m, rows[i].trip_id, rows[i].stop_id, FromTimestampMillis(rows[i].arrival_time)))

RECURSIVE ScanDepartures(_, _, _)
ScanDepartures(rows, i, m) ==
    IF i > Len(rows) THEN m
    ELSE ScanDepartures(rows, i + 1,
            PutTime(m, rows[i].trip_id, rows[i].stop_id, FromTimestampMillis(rows[i].departure_time)))

\* .sort(["departure_time"], maintain_order(false))
DepartureLeq(a, b) == a.departure_time <= b.departure_time

NoSortByDeparture(rows) == {rows}

SortByDeparture(rows) ==
    {Reorder(rows, p) :
        p \in {q \in Permutations(DOMAIN rows) :
                  \A i \in 1..(Len(rows) - 1) : DepartureLeq(rows[q[i]], rows[q[i + 1]])}}

\* .group_by([line_id, stop_id]).agg([trip_id, departure_time]), then the loop of
\* lines 107-122: each group keeps its rows in the order of the sorted frame.
AppendTrip(m, line, stop, dep, trip) ==
    IF <<line, stop>> \in DOMAIN m
    THEN [m EXCEPT ![<<line, stop>>] = Append(@, <<FromTimestampMillis(dep), trip>>)]
    ELSE m @@ (<<line, stop>> :> << <<FromTimestampMillis(dep), trip>> >>)

RECURSIVE GroupByLineAndStop(_, _, _)
GroupByLineAndStop(rows, i, m) ==
    IF i > Len(rows) THEN m
    ELSE GroupByLineAndStop(rows, i + 1,
            AppendTrip(m, rows[i].line_id, rows[i].stop_id,
                       rows[i].departure_time, rows[i].trip_id))

\* The loop of lines 126-147: last_departure_time is bound once, to the first
\* entry of the list, and every later entry is compared with it.
ListPassesCheck(list) ==
    Len(list) >= 2 => \A i \in 2..Len(list) : list[i][1] >= list[1][1]

MonotonicityCheckPasses(m) == \A key \in DOMAIN m : ListPassesCheck(m[key])

----------------------------------------------------------------------------
(* TransferPatternsAlgorithm::preprocess *)

\* par_iter().chunks(n): consecutive chunks of n stops, the last one shorter
\* when n does not divide the number of stops; no chunk is empty.
ChunksExact(s, n) ==
    [c \in 1..(Len(s) \div n) |-> SubSeq(s, (c - 1) * n + 1, c * n)]

ChunksOffByOne(s, n) ==
    [c \in 1..((Len(s) + n) \div (n + 1)) |->
        SubSeq(s, (c - 1) * (n + 1) + 1, Min(c * (n + 1), Len(s)))]

Chunks(s, n) ==
    [c \in 1..((Len(s) + n - 1) \div n) |->
        SubSeq(s, (c - 1) * n + 1, Min(c * n, Len(s)))]

StopChunks == Chunks(stops, chunk_size)

ChunkTasks == DOMAIN task_pc

\* Range { earliest_departure: from_timestamp_millis(0), start: *stop, range: weeks(1) }
RangeOf(stop) ==
    [earliest_departure |-> FromTimestampMillis(0), start |-> stop, range |-> WeekMillis]

\* RaptorAlgorithm::query_range_all: a function of the read-only index and the
\* range.  A pattern is represented by the stop it leads to.
QueryRangeAll(r) ==
    IF r.start \in query_errors
    THEN [ok |-> FALSE, origin |-> r.start, patterns |-> {}]
    ELSE [ok |-> TRUE, origin |-> r.start,
          patterns |-> {d \in Range(stops) : d # r.start}]

\* .filter_map(|result| match result { Ok(res) => Some(res), Err(_) => None })
DropChunkOnErr(results, res) == IF res.ok THEN Append(results, res) ELSE <<>>

FilterOk(results, res) == IF res.ok THEN Append(results, res) ELSE results

\* TransferPatterns::add_multiple: the patterns of every result are inserted
\* into the set kept for the result's origin stop.
InsertPatterns(tp, res) ==
    IF res.origin \in DOMAIN tp
    THEN [tp EXCEPT ![res.origin] = @ \cup res.patterns]
    ELSE tp @@ (res.origin :> res.patterns)

RECURSIVE AddMultiple(_, _, _)
AddMultiple(tp, results, i) ==
    IF i > Len(results) THEN tp
    ELSE AddMultiple(InsertPatterns(tp, results[i]), results, i + 1)

\* transfer_patterns.lock(): blocks until no other task holds the guard
NoMutex == TRUE

MutexFree == mutex_owner = NoTask

\* for_each returns when the closure has returned for every chunk
AllChunksAdded == \A t \in ChunkTasks : task_pc[t] \in {"release", "done"}

AllChunksDone == \A t \in ChunkTasks : task_pc[t] = "done"

BagAdd(b, x) ==
    IF x \in DOMAIN b THEN [b EXCEPT ![x] = @ + 1] ELSE b @@ (x :> 1)

----------------------------------------------------------------------------
(* Initial states: the inputs of one call of preprocess, nothing built yet. *)

ProgRows == [line_id : LineIds, stop_id : StopIds, sequence_number : SeqNums]

KeyPairs == {<<0, 0>>, <<0, 1>>, <<1, 1>>}

LineRows ==
    {[line_id |-> k[1], stop_id |-> k[2], stop_sequence |-> k[2], trip_id |-> t,
      arrival_time |-> d, departure_time |-> d] : k \in KeyPairs, t \in TripIds, d \in Times}

\* n rows of the stops table holding the stop ids 0..m-1 (a stop_id repeats when m < n)
TaskTable(n, m) == [i \in 1..n |-> (i - 1) % m]

\* the numbers of distinct stop ids tried for a table of n rows
DistinctCounts(n) == IF n = 0 THEN {1} ELSE {k \in {n - 1, n} : k >= 1}

\* one line through the stops 0..m-1, as DirectConnections emits it
LineThrough(m) ==
    [k \in 1..m |-> [line_id |-> 0, stop_id |-> k - 1, sequence_number |-> k - 1]]

NothingBuilt ==
    /\ pc = "stops"
    /\ stops = <<>>
    /\ stops_by_line = EmptyMap
    /\ lines_by_stops = EmptyMap
    /\ arrivals = EmptyMap
    /\ departures = EmptyMap
    /\ trips_by_line_and_stop = EmptyMap
    /\ task_pc = <<>>
    /\ task_next = <<>>
    /\ task_results = <<>>
    /\ mutex_owner = NoTask
    /\ strong_count = 0
    /\ transfer_patterns = EmptyMap
    /\ pb_len = 0
    /\ pb_pos = 0
    /\ queries = EmptyMap
    /\ lock_order = <<>>

\* RaptorAlgorithm::preprocess on any stops table and any line_progressions
InitIndex ==
    /\ entry = "raptor"
    /\ debug_assertions \in BOOLEAN
    /\ stops_table \in SeqsUpTo(StopIds \cup {Null}, MaxStopRows)
    /\ line_progressions \in SeqsUpTo(ProgRows, MaxProgRows)
    /\ expanded_lines = <<>>
    /\ query_errors = {}
    /\ chunk_size = CHUNK_SIZE
    /\ progress_bars = FALSE
    /\ NothingBuilt

\* RaptorAlgorithm::preprocess on any expanded_lines
InitTimetable ==
    /\ entry = "raptor"
    /\ debug_assertions \in BOOLEAN
    /\ stops_table = TaskTable(2, 2)
    /\ line_progressions = LineThrough(2)
    /\ expanded_lines \in SeqsUpTo(LineRows, MaxLineRows)
    /\ query_errors = {}
    /\ chunk_size = CHUNK_SIZE
    /\ progress_bars = FALSE
    /\ NothingBuilt

\* TransferPatternsAlgorithm::preprocess: n stops, chunks of c, at most one
\* stop whose range query fails.  CHUNK_SIZE itself is run with up to
\* CHUNK_SIZE + 1 stops, so that it yields a full and a partial chunk.
InitOrchestrator ==
    /\ entry = "tp"
    /\ debug_assertions \in BOOLEAN
    /\ \E c \in {1, 2, CHUNK_SIZE} :
       \E n \in 0..(IF c = CHUNK_SIZE THEN CHUNK_SIZE + 1 ELSE MaxTaskStops) :
       \E m \in DistinctCounts(n) :
          /\ chunk_size = c
          /\ stops_table = TaskTable(n, m)
          /\ line_progressions = LineThrough(Min(n, m))
          /\ query_errors \in {{}} \cup {{s} : s \in 0..(Min(n, m) - 1)}
    /\ expanded_lines = <<>>
    /\ progress_bars \in BOOLEAN
    /\ NothingBuilt

Init == InitIndex \/ InitTimetable \/ InitOrchestrator

----------------------------------------------------------------------------
(* Steps of RaptorAlgorithm::preprocess (main thread). *)

\* lines 18-23
MaterializeStops ==
    /\ pc = "stops"
    /\ stops' = StopsVec(stops_table)
    /\ pc' = "lines"
    /\ UNCHANGED <<inputs, stops_by_line, lines_by_stops, arrivals, departures,
                   trips_by_line_and_stop, tasks>>

\* lines 25-50
ScanLineProgressions ==
    /\ pc = "lines"
    /\ stops_by_line' = ScanStopsByLine(line_progressions, 1, EmptyMap)
    /\ lines_by_stops' = ScanLinesByStops(line_progressions, 1, EmptyMap)
    /\ pc' = IF debug_assertions /\ ~StopsAssertHolds(stops, lines_by_stops')
             THEN "raptor_panicked" ELSE "times"
    /\ UNCHANGED <<inputs, stops, arrivals, departures, trips_by_line_and_stop, tasks>>

\* lines 53-90
ScanStopTimes ==
    /\ pc = "times"
    /\ \E sorted_lines \in SortByLineTripSeq(expanded_lines) :
          /\ arrivals' = ScanArrivals(sorted_lines, 1, EmptyMap)
          /\ departures' = ScanDepartures(sorted_lines, 1, EmptyMap)
    /\ pc' = "trips"
    /\ UNCHANGED <<inputs, stops, stops_by_line, lines_by_stops,
                   trips_by_line_and_stop, tasks>>

\* lines 93-122
BuildTripsByLineAndStop ==
    /\ pc = "trips"
    /\ \E sorted \in SortByDeparture(expanded_lines) :
          trips_by_line_and_stop' = GroupByLineAndStop(sorted, 1, EmptyMap)
    /\ pc' = "check"
    /\ UNCHANGED <<inputs, stops, stops_by_line, lines_by_stops, arrivals,
                   departures, tasks>>

\* lines 124-159: the check exists in a debug build only; then Ok(Self { .. }).
\* CrowFlyTransferProvider::from_stops (line 157) is an external collaborator and
\* is taken to succeed.
CheckAndReturn ==
    /\ pc = "check"
    /\ pc' = IF debug_assertions /\ ~MonotonicityCheckPasses(trips_by_line_and_stop)
             THEN "raptor_panicked" ELSE "index"
    /\ UNCHANGED <<inputs, index, tasks>>

----------------------------------------------------------------------------
(* Steps of TransferPatternsAlgorithm::preprocess. *)

\* lines 19-36: the index is wrapped, the aggregator and the progress bar are
\* created, and for_each hands one closure call per chunk to the pool.
CreateAggregator ==
    /\ pc = "index"
    /\ entry = "tp"
    /\ transfer_patterns' = EmptyMap
    /\ strong_count' = 1
    /\ mutex_owner' = NoTask
    /\ pb_len' = IF progress_bars THEN Len(stops) ELSE 0
    /\ pb_pos' = 0
    /\ task_pc' = [t \in DOMAIN StopChunks |-> "idle"]
    /\ task_next' = [t \in DOMAIN StopChunks |-> 0]
    /\ task_results' = [t \in DOMAIN StopChunks |-> <<>>]
    /\ lock_order' = <<>>
    /\ queries' = EmptyMap
    /\ pc' = "for_each"
    /\ UNCHANGED <<inputs, index>>

\* lines 39-40: Arc::clone
StartChunk(t) ==
    /\ pc = "for_each"
    /\ task_pc[t] = "idle"
    /\ strong_count' = strong_count + 1
    /\ task_pc' = [task_pc EXCEPT ![t] = "query"]
    /\ UNCHANGED <<inputs, pc, index, task_next, task_results, mutex_owner,
                   transfer_patterns, pb_len, pb_pos, queries, lock_order>>

\* lines 42-58: the next stop of the chunk is queried; collect() ends after the last
QueryStop(t) ==
    /\ pc = "for_each"
    /\ task_pc[t] = "query"
    /\ LET r == RangeOf(StopChunks[t][task_next[t] + 1])
       IN  /\ queries' = BagAdd(queries, r)
           /\ task_results' = [task_results EXCEPT ![t] = FilterOk(@, QueryRangeAll(r))]
    /\ task_next' = [task_next EXCEPT ![t] = @ + 1]
    /\ task_pc' = [task_pc EXCEPT
                     ![t] = IF task_next[t] + 1 = Len(StopChunks[t]) THEN "lock" ELSE "query"]
    /\ UNCHANGED <<inputs, pc, index, mutex_owner, strong_count, transfer_patterns,
                   pb_len, pb_pos, lock_order>>

\* line 61
LockAggregator(t) ==
    /\ pc = "for_each"
    /\ task_pc[t] = "lock"
    /\ MutexFree
    /\ mutex_owner' = t
    /\ lock_order' = Append(lock_order, t)
    /\ task_pc' = [task_pc EXCEPT ![t] = "add"]
    /\ UNCHANGED <<inputs, pc, index, task_next, task_results, strong_count,
                   transfer_patterns, pb_len, pb_pos, queries>>

\* line 62
AddChunk(t) ==
    /\ pc = "for_each"
    /\ task_pc[t] = "add"
    /\ transfer_patterns' = AddMultiple(transfer_patterns, task_results[t], 1)
    /\ task_pc' = [task_pc EXCEPT ![t] = "inc"]
    /\ UNCHANGED <<inputs, pc, index, task_next, task_results, mutex_owner,
                   strong_count, pb_len, pb_pos, queries, lock_order>>

\* lines 64-65: pb.inc(CHUNK_SIZE), then the guard is dropped as the closure ends
ReportProgress(t) ==
    /\ pc = "for_each"
    /\ task_pc[t] = "inc"
    /\ pb_pos' = IF progress_bars THEN pb_pos + chunk_size ELSE pb_pos
    /\ mutex_owner' = NoTask
    /\ task_pc' = [task_pc EXCEPT ![t] = "release"]
    /\ UNCHANGED <<inputs, pc, index, task_next, task_results, strong_count,
                   transfer_patterns, pb_len, queries, lock_order>>

\* line 65: the closure's clone of the Arc is dropped after the guard
ReleaseChunk(t) ==
    /\ pc = "for_each"
    /\ task_pc[t] = "release"
    /\ strong_count' = strong_count - 1
    /\ task_pc' = [task_pc EXCEPT ![t] = "done"]
    /\ UNCHANGED <<inputs, pc, index, task_next, task_results, mutex_owner,
                   transfer_patterns, pb_len, pb_pos, queries, lock_order>>

\* line 65: for_each returns
JoinChunks ==
    /\ pc = "for_each"
    /\ AllChunksDone
    /\ pc' = "finish"
    /\ UNCHANGED <<inputs, index, tasks>>

\* line 67: finish_with_message sets the bar to its length
FinishProgress ==
    /\ pc = "finish"
    /\ pb_pos' = IF progress_bars THEN pb_len ELSE pb_pos
    /\ pc' = "unwrap"
    /\ UNCHANGED <<inputs, index, task_pc, task_next, task_results, mutex_owner,
                   strong_count, transfer_patterns, pb_len, queries, lock_order>>

\* lines 69-76: Arc::try_unwrap(..).expect("Lock is still owned by others")
Handoff ==
    /\ pc = "unwrap"
    /\ IF strong_count = 1
       THEN strong_count' = 0 /\ pc' = "done"
       ELSE strong_count' = strong_count /\ pc' = "handoff_panicked"
    /\ UNCHANGED <<inputs, index, task_pc, task_next, task_results, mutex_owner,
                   transfer_patterns, pb_len, pb_pos, queries, lock_order>>

Next ==
    \/ MaterializeStops
    \/ ScanLineProgressions
    \/ ScanStopTimes
    \/ BuildTripsByLineAndStop
    \/ CheckAndReturn
    \/ CreateAggregator
    \/ \E t \in ChunkTasks : StartChunk(t)
    \/ \E t \in ChunkTasks : QueryStop(t)
    \/ \E t \in ChunkTasks : LockAggregator(t)
    \/ \E t \in ChunkTasks : AddChunk(t)
    \/ \E t \in ChunkTasks : ReportProgress(t)
    \/ \E t \in ChunkTasks : ReleaseChunk(t)
    \/ JoinChunks
    \/ FinishProgress
    \/ Handoff

Spec == Init /\ [][Next]_vars

----------------------------------------------------------------------------
(* The monotonicity check of lines 124-148 on its own: it is handed any map *)
(* of lists, in either build, and decides whether the index is returned.    *)

CheckTimes == 0..2

\* the lists of <<departure, trip>> the check is tried on; entry i is trip i - 1
CheckLists ==
    UNION {{[i \in 1..k |-> <<d[i], i - 1>>] : d \in [1..k -> CheckTimes]} : k \in 0..MaxListLen}

InitCheck ==
    /\ entry = "raptor"
    /\ debug_assertions \in BOOLEAN
    /\ stops_table = TaskTable(1, 1)
    /\ line_progressions = LineThrough(1)
    /\ \E list \in CheckLists :
          /\ expanded_lines =
                [i \in 1..Len(list) |->
                    [line_id |-> 0, stop_id |-> 0, stop_sequence |-> 0, trip_id |-> list[i][2],
                     arrival_time |-> list[i][1], departure_time |-> list[i][1]]]
          /\ trips_by_line_and_stop =
                IF list = <<>> THEN EmptyMap ELSE (<<0, 0>> :> list)
    /\ query_errors = {}
    /\ chunk_size = CHUNK_SIZE
    /\ progress_bars = FALSE
    /\ pc = "check"
    /\ stops = StopsVec(stops_table)
    /\ stops_by_line = ScanStopsByLine(line_progressions, 1, EmptyMap)
    /\ lines_by_stops = ScanLinesByStops(line_progressions, 1, EmptyMap)
    /\ arrivals = ScanArrivals(expanded_lines, 1, EmptyMap)
    /\ departures = ScanDepartures(expanded_lines, 1, EmptyMap)
    /\ task_pc = <<>>
    /\ task_next = <<>>
    /\ task_results = <<>>
    /\ mutex_owner = NoTask
    /\ strong_count = 0
    /\ transfer_patterns = EmptyMap
    /\ pb_len = 0
    /\ pb_pos = 0
    /\ queries = EmptyMap
    /\ lock_order = <<>>

NextCheck == CheckAndReturn

SpecCheck == InitCheck /\ [][NextCheck]_vars

----------------------------------------------------------------------------
(* Properties of the index built by RaptorAlgorithm::preprocess. *)

\* RaptorAlgorithm::preprocess has returned Ok(index)
IndexReturned == pc \in {"index", "for_each", "finish", "unwrap", "done", "handoff_panicked"}

NoDuplicates(seq) == \A i, j \in DOMAIN seq : seq[i] = seq[j] => i = j

\* the lines, positions and stops that occur in the input or in the index
SeenLines == {line_progressions[i].line_id : i \in DOMAIN line_progressions} \cup DOMAIN stops_by_line
SeenStops == {line_progressions[i].stop_id : i \in DOMAIN line_progressions} \cup DOMAIN lines_by_stops
SeenPositions ==
    {line_progressions[i].sequence_number : i \in DOMAIN line_progressions}
        \cup 0..Len(line_progressions)

\* C1: once the index is returned, (L, k) is in lines_by_stops[s] exactly when
\* stops_by_line[L] has a position k and holds s there (positions count from 0),
\* whatever the order and the sequence numbers of the line_progressions rows.
C1_LinesByStopsMirrorStopsByLine ==
    IndexReturned =>
        \A L \in SeenLines, k \in SeenPositions, s \in SeenStops :
            (s \in DOMAIN lines_by_stops /\ <<L, k>> \in lines_by_stops[s])
            <=> (/\ L \in DOMAIN stops_by_line
                 /\ k < Len(stops_by_line[L])
                 /\ stops_by_line[L][k + 1] = s)

\* C2: once the index is returned, lines_by_stops has exactly one entry per
\* stop of stops, and an input without any trip still gets its index.
C2_EveryStopIndexed ==
    /\ IndexReturned =>
          /\ Cardinality(DOMAIN lines_by_stops) = Len(stops)
          /\ \A i \in DOMAIN stops : stops[i] \in DOMAIN lines_by_stops
    /\ (line_progressions = <<>> /\ expanded_lines = <<>>) => pc # "raptor_panicked"

\* the entries of a list are in ascending order of departure
SortedByDeparture(list) ==
    \A i, j \in DOMAIN list : i < j => list[i][1] <= list[j][1]

\* ... and entries of equal departure in ascending order of TripId
TiesByTripId(list) ==
    \A i, j \in DOMAIN list : (i < j /\ list[i][1] = list[j][1]) => list[i][2] <= list[j][2]

LineStopKeys == {<<expanded_lines[i].line_id, expanded_lines[i].stop_id>> : i \in DOMAIN expanded_lines}

\* the <<departure, trip>> pair of a row of expanded_lines
RowEntry(r) == <<FromTimestampMillis(r.departure_time), r.trip_id>>

\* the list of key holds each <<departure, trip>> pair as often as the rows of key do
SameEntriesAsRows(key) ==
    /\ key \in DOMAIN trips_by_line_and_stop
    /\ LET list == trips_by_line_and_stop[key]
           pairs == Range(list) \cup {RowEntry(expanded_lines[i]) : i \in DOMAIN expanded_lines}
       IN  \A e \in pairs :
              Cardinality({i \in DOMAIN list : list[i] = e})
              = Cardinality({i \in DOMAIN expanded_lines :
                               /\ <<expanded_lines[i].line_id, expanded_lines[i].stop_id>> = key
                               /\ RowEntry(expanded_lines[i]) = e})

ExactlyTheRows ==
    /\ DOMAIN trips_by_line_and_stop = LineStopKeys
    /\ \A key \in LineStopKeys : SameEntriesAsRows(key)

C8_StopsDeduplicated ==
    pc # "stops" =>
        /\ NoDuplicates(stops)
        /\ stops = SelectSeq(stops_table, LAMBDA x : x # Null)

----------------------------------------------------------------------------
(* Properties of the parallel orchestrator. *)

\* the main thread is in or past for_each
TaskPhase == pc \in {"for_each", "finish", "unwrap", "done", "handoff_panicked"}

HoldsGuard(t) == task_pc[t] \in {"add", "inc"}

TimesLocked(t) == Cardinality({i \in DOMAIN lock_order : lock_order[i] = t})

\* the patterns of stop s in a run in which no query fails
CleanPatterns(s) == {d \in Range(stops) : d # s}

\* the aggregator after the stops are queried one at a time, in list order, each
\* successful result inserted on its own
RECURSIVE SequentialRun(_, _)
SequentialRun(i, tp) ==
    IF i > Len(stops) THEN tp
    ELSE LET res == QueryRangeAll(RangeOf(stops[i]))
         IN  SequentialRun(i + 1, IF res.ok THEN InsertPatterns(tp, res) ELSE tp)

\* C4: the final transfer_patterns is the one of the sequential run, whatever
\* the chunk size, the interleaving of the chunk tasks and the order in which
\* they took the mutex.
C4_OrderAndChunkSizeIndependent ==
    pc = "done" => transfer_patterns = SequentialRun(1, EmptyMap)

\* a finished run of several chunks, the last one partial, in which a later
\* chunk inserted before an earlier one
C4_Witness ==
    /\ pc = "done"
    /\ Len(stops) % chunk_size # 0
    /\ Len(lock_order) >= 2
    /\ lock_order[1] > lock_order[2]
    /\ \E s \in DOMAIN transfer_patterns : transfer_patterns[s] # {}

\* C5: when the range query of some stop fails, preprocessing neither panics
\* nor gets stuck; a chunk that has inserted has inserted every successful
\* result of its stops; and at the end the failed stop has no patterns while
\* every other stop has the patterns of a clean run.
C5_QueryErrorIsLocal ==
    (TaskPhase /\ query_errors \cap Range(stops) # {}) =>
        /\ pc # "handoff_panicked"
        /\ pc # "done" => ENABLED Next
        /\ \A t \in ChunkTasks :
              task_pc[t] \in {"inc", "release", "done"} =>
                 \A i \in DOMAIN StopChunks[t] :
                    LET s == StopChunks[t][i]
                    IN  s \notin query_errors =>
                           /\ s \in DOMAIN transfer_patterns
                           /\ CleanPatterns(s) \subseteq transfer_patterns[s]
        /\ pc = "done" =>
              \A s \in Range(stops) :
                 IF s \in query_errors
                 THEN s \notin DOMAIN transfer_patterns
                 ELSE /\ s \in DOMAIN transfer_patterns
                      /\ transfer_patterns[s] = CleanPatterns(s)

\* a finished run in which one chunk held a stop that succeeded, then the stop
\* that failed, and the patterns of the first are in the aggregator
C5_Witness ==
    /\ pc = "done"
    /\ \E t \in ChunkTasks : \E i, j \in DOMAIN StopChunks[t] :
          /\ i < j
          /\ StopChunks[t][j] \in query_errors
          /\ StopChunks[t][i] \notin query_errors
          /\ StopChunks[t][i] \in DOMAIN transfer_patterns
          /\ transfer_patterns[StopChunks[t][i]] # {}

\* C6: at most one chunk task is between taking the mutex and dropping the
\* guard; exactly the task that holds the guard is the mutex's owner; a task
\* takes the mutex once, after the last range query of its chunk, and runs no
\* query while it holds it.
C6_AddMultipleSerialized ==
    TaskPhase =>
        /\ Cardinality({t \in ChunkTasks : HoldsGuard(t)}) <= 1
        /\ \A t \in ChunkTasks :
              /\ HoldsGuard(t) <=> mutex_owner = t
              /\ TimesLocked(t) =
                    IF task_pc[t] \in {"add", "inc", "release", "done"} THEN 1 ELSE 0
              /\ TimesLocked(t) > 0 =>
                    /\ task_next[t] = Len(StopChunks[t])
                    /\ task_pc[t] # "query"

\* one task inserts its chunk of two stops or more while another waits for the mutex
C6_Witness ==
    /\ pc = "for_each"
    /\ \E t, u \in ChunkTasks :
          /\ t # u
          /\ task_pc[t] = "add"
          /\ Len(StopChunks[t]) >= 2
          /\ task_pc[u] = "lock"

\* C7: the handoff never finds the aggregator shared; it happens only when
\* every chunk task has inserted, dropped the guard and dropped its clone, and
\* afterwards no task is left that could insert.
C7_HandoffAfterAllChunks ==
    /\ pc # "handoff_panicked"
    /\ pc \in {"for_each", "finish", "unwrap"} =>
          strong_count = 1 + Cardinality({t \in ChunkTasks : task_pc[t] \notin {"idle", "done"}})
    /\ pc \in {"unwrap", "done"} =>
          /\ \A t \in ChunkTasks : task_pc[t] = "done" /\ TimesLocked(t) = 1
          /\ mutex_owner = NoTask
    /\ pc = "unwrap" => strong_count = 1
    /\ pc = "done" => strong_count = 0

\* the aggregator has been handed off after two chunk tasks or more
C7_Witness ==
    /\ pc = "done"
    /\ Cardinality(ChunkTasks) >= 2
    /\ strong_count = 0
    /\ transfer_patterns # EmptyMap

RECURSIVE Flatten(_, _)
Flatten(chunks, c) ==
    IF c > Len(chunks) THEN <<>> ELSE chunks[c] \o Flatten(chunks, c + 1)

\* the range the orchestrator is to query for a stop
WeekFromEpoch(stop) == [earliest_departure |-> 0, start |-> stop, range |-> WeekMillis]

Entries(stop) == Cardinality({i \in DOMAIN stops : stops[i] = stop})

\* C10: the chunks, one task each, are consecutive pieces of the stop list that
\* together make up the list; all have chunk_size stops except the last, which
\* has between 1 and chunk_size; every range query is made from epoch 0 over one
\* week, and when for_each has returned exactly one has been made for every
\* entry of the stop list.
C10_ChunksPartitionStops ==
    TaskPhase =>
        /\ ChunkTasks = DOMAIN StopChunks
        /\ Flatten(StopChunks, 1) = stops
        /\ \A c \in DOMAIN StopChunks :
              /\ Len(StopChunks[c]) \in 1..chunk_size
              /\ c < Len(StopChunks) => Len(StopChunks[c]) = chunk_size
        /\ \A r \in DOMAIN queries :
              /\ r = WeekFromEpoch(r.start)
              /\ queries[r] <= Entries(r.start)
        /\ pc \in {"finish", "unwrap", "done"} =>
              \A i \in DOMAIN stops :
                 /\ WeekFromEpoch(stops[i]) \in DOMAIN queries
                 /\ queries[WeekFromEpoch(stops[i])] = Entries(stops[i])

\* a finished run over full chunks followed by a partial one
C10_Witness ==
    /\ pc = "done"
    /\ Len(stops) > chunk_size
    /\ Len(stops) % chunk_size # 0
    /\ \A i \in DOMAIN stops : queries[WeekFromEpoch(stops[i])] = 1

----------------------------------------------------------------------------
(* Properties of the progress reporting. *)

\* C11: with a progress sink and the program's CHUNK_SIZE, the units reported
\* by the chunk tasks (the bar's position until finish_with_message sets it)
\* never exceed the bar's length, the number of stops, and equal it when
\* for_each has returned, whatever the number of stops.
C11_ProgressWithinTotal ==
    (progress_bars /\ chunk_size = CHUNK_SIZE /\ pc \in {"for_each", "finish"}) =>
        /\ pb_len = Len(stops)
        /\ pb_pos <= pb_len
        /\ pc = "finish" => pb_pos = pb_len

====
